---- MODULE Spec2Model ----
(***************************************************************************)
(* A model of the JLCPCB -> KiCad library importer (jlcimporter.py,        *)
(* helper.py, tester.py).                                                  *)
(*                                                                         *)
(* Text is modelled as a sequence of tokens (TLA+ strings).  Every token   *)
(* the code inspects on its own - the newline, the double quote, runs of   *)
(* blanks, the closing parenthesis, the entry marker '(lib (name' - is a   *)
(* token of its own, so that readlines/strip/split/find/endswith are       *)
(* computed on the text the way Python computes them on characters.        *)
(***************************************************************************)
EXTENDS Integers, Sequences, FiniteSets, TLC

VARIABLES
    cfg,        \* what the run was started with (command-line arguments, the
                \* files found at start)
    pc,         \* where the run is
    table,      \* the library-table file: [exists, data]
    prevTable,  \* the table file as it was before the last merge call
    lastCall,   \* the last merge call: [op, names, err]
    calls,      \* number of merge calls made so far
    part_numbers,           \* validate_part_numbers: the argument
    valid_part_numbers,     \* validate_part_numbers: the list returned
    files,      \* the files on disk: a set of [dir, name, text]
    dirs,       \* the directories on disk: a set of paths
    before,     \* files as they were before the last file operation
    lastOp,     \* the last file operation: [op, n]
    idx,        \* main: position in valid_part_numbers (the for loop)
    processed_part_numbers, \* main: the canonical names collected so far
    fp_lib_table,           \* main: the footprint table file
    sym_lib_table,          \* main: the symbol table file
    outcomes    \* main: what happened to each identifier: [id, result, name]

mergeVars == <<table, prevTable, lastCall, calls>>
validateVars == <<part_numbers, valid_part_numbers>>
fsVars == <<files, dirs, before, lastOp>>
mainVars == <<idx, processed_part_numbers, fp_lib_table, sym_lib_table, outcomes>>
vars == <<cfg, pc, mergeVars, validateVars, fsVars, mainVars>>

(***************************************************************************)
(* Bounds of the model.                                                    *)
(***************************************************************************)
MaxEntries == 1     \* entries of the table file the run starts from
MaxBlank == 1       \* blank lines after the last line of that file
MaxNames == 2       \* length of the list of names passed to one merge call
MaxCalls == 2       \* merge calls in one behaviour
MaxIds == 2         \* length of the list given to validate_part_numbers
MaxDigits == 9      \* digits of the longest identifier tried
MaxDepth == 2       \* nesting of a generated file below the staging directory
MaxRewrites == 2    \* in-file rewrites in one behaviour

Names == {"PartA", "PartB"}
LibDirs == {<<"lib">>, <<"parts", "/">>}
Kinds == {"sym", "fp"}

(***************************************************************************)
(* Tokens and Python's string primitives.                                  *)
(***************************************************************************)
NL == "\n"
Q == "\""
RP == ")"
LIBNAME == "(lib (name"
KIPRJMOD == "${KIPRJMOD}"

Min(S) == CHOOSE x \in S : \A y \in S : x <= y
Max(S) == CHOOSE x \in S : \A y \in S : x >= y

IsWS(t) == t \in {" ", "  ", NL}

\* str.strip(): leading and trailing whitespace removed
strip(line) ==
    LET keep == {i \in 1..Len(line) : ~IsWS(line[i])}
    IN  IF keep = {} THEN <<>> ELSE SubSeq(line, Min(keep), Max(keep))

\* tok in line
Contains(line, tok) == \E i \in 1..Len(line) : line[i] = tok

\* line.startswith(tok)
startswith(line, tok) == Len(line) >= 1 /\ line[1] = tok

\* file.readlines(): the text cut after every newline, newlines kept
RECURSIVE ReadLinesFrom(_, _)
ReadLinesFrom(data, start) ==
    IF start > Len(data) THEN <<>>
    ELSE LET nls == {i \in start..Len(data) : data[i] = NL}
         IN  IF nls = {} THEN <<SubSeq(data, start, Len(data))>>
             ELSE <<SubSeq(data, start, Min(nls))>> \o ReadLinesFrom(data, Min(nls) + 1)

readlines(data) == ReadLinesFrom(data, 1)

\* file.writelines(lines): the lines one after the other, nothing added
RECURSIVE writelines(_)
writelines(lines) ==
    IF lines = <<>> THEN <<>> ELSE Head(lines) \o writelines(Tail(lines))

\* line.split('"') has an element [1] only when the line holds a quote
HasQuote(line) == Contains(line, Q)

\* line.split('"')[1]: the text between the first quote and the second one
\* (or the end of the line)
SplitQuote1(line) ==
    LET qs == {i \in 1..Len(line) : line[i] = Q}
        q1 == Min(qs)
        rest == qs \ {q1}
    IN  SubSeq(line, q1 + 1, IF rest = {} THEN Len(line) ELSE Min(rest) - 1)

(***************************************************************************)
(* The text of a library table.                                            *)
(***************************************************************************)
OpenTag(kind) == IF kind = "sym" THEN "(sym_lib_table" ELSE "(fp_lib_table"
ArtifactName(kind) == IF kind = "sym" THEN "symbol.kicad_sym" ELSE "footprint.kicad_mod"

HeaderLines(kind) == << <<OpenTag(kind), NL>>, <<"  ", "(version 7)", NL>> >>
CloseLine == <<RP, NL>>

\* '  (lib (name "{0}")(type "KiCad")(uri "${KIPRJMOD}/{1}/{2}/<file>")(options "")(descr ""))\n'
EntryLine(kind, name, dir) ==
    <<"  ", LIBNAME, " ", Q, name, Q, ")(type ", Q, "KiCad", Q, ")(uri ", Q,
      KIPRJMOD, "/">> \o dir \o <<"/", name, "/", ArtifactName(kind), Q,
      ")(options ", Q, Q, ")(descr ", Q, Q, "))", NL>>

NoFile == [exists |-> FALSE, data |-> <<>>]
File(data) == [exists |-> TRUE, data |-> data]

Last(s) == s[Len(s)]
Front(s) == SubSeq(s, 1, Len(s) - 1)

Ok(file) == [err |-> "", file |-> file]
Raise(what, file) == [err |-> what, file |-> file]

(***************************************************************************)
(* jlcimporter.py: update_kicad_lib_table                                  *)
(***************************************************************************)
\* lines 146-154: the lines of the file, or a fresh two-line header
KicadContents(file, lib_type) ==
    IF file.exists THEN readlines(file.data) ELSE HeaderLines(lib_type)

\* lines 156-157: a closing parenthesis in the LAST line is removed
PopClosing(contents) ==
    IF contents # <<>> /\ strip(Last(contents)) = <<RP>> THEN Front(contents) ELSE contents

\* lines 158-161: the names of the lines that hold '(lib (name'
MarkedLines(contents) == {i \in 1..Len(contents) : Contains(contents[i], LIBNAME)}
ExistingParts(contents) == {SplitQuote1(contents[i]) : i \in MarkedLines(contents)}
ScanRaises(contents) == \E i \in MarkedLines(contents) : ~HasQuote(contents[i])

\* lines 163-166: one entry per listed name that is not among the names read
\* from the file; existing_parts is not extended while entries are added
RECURSIVE NewEntries(_, _, _, _)
NewEntries(kind, dir, names, existing) ==
    IF names = <<>> THEN <<>>
    ELSE (IF <<Head(names)>> \notin existing
          THEN <<EntryLine(kind, Head(names), dir)>> ELSE <<>>)
         \o NewEntries(kind, dir, Tail(names), existing)

\* lines 168-169: file_contents[-1] raises IndexError on an empty list
EnsureClosed(contents) ==
    IF strip(Last(contents)) # <<RP>> THEN Append(contents, CloseLine) ELSE contents

update_kicad_lib_table(file, lib_dir, names, lib_type) ==
    LET popped == PopClosing(KicadContents(file, lib_type))
        added == popped \o NewEntries(lib_type, lib_dir, names, ExistingParts(popped))
    IN  IF ScanRaises(popped) \/ added = <<>> THEN Raise("IndexError", file)
        ELSE Ok(File(writelines(EnsureClosed(added))))

(***************************************************************************)
(* helper.py: update_fp_lib_table                                          *)
(***************************************************************************)
\* line 143: the uri is built with the literal directory 'lib'
HelperDir(lib_dir) == <<"lib">>

update_fp_lib_table(file, lib_dir, names) ==
    IF ~file.exists
    THEN LET new_entries == NewEntries("fp", HelperDir(lib_dir), names, {})
         IN  IF new_entries = <<>> THEN Ok(file)
             ELSE Ok(File(writelines(HeaderLines("fp") \o new_entries \o <<CloseLine>>)))
    ELSE LET contents == readlines(file.data)
         IN  IF contents = <<>> \/ ScanRaises(PopClosing(contents))
             THEN Raise("IndexError", file)
             ELSE LET popped == PopClosing(contents)
                      new_entries == NewEntries("fp", HelperDir(lib_dir), names,
                                                ExistingParts(popped))
                  IN  IF new_entries = <<>> THEN Ok(file)
                      ELSE Ok(File(writelines(popped \o new_entries \o <<CloseLine>>)))

(***************************************************************************)
(* helper.py: update_sym_lib_table                                         *)
(***************************************************************************)
\* lines 168-171: the names of the lines that START with '(lib (name'
SymMarkedLines(content) ==
    {i \in 1..Len(content) : startswith(strip(content[i]), LIBNAME)}
SymExistingParts(content) == {SplitQuote1(content[i]) : i \in SymMarkedLines(content)}

\* lines 176-185: the file is opened for appending; header and closing
\* parenthesis are written only when the file was absent or empty
update_sym_lib_table(file, lib_dir, names) ==
    LET file_is_empty == ~file.exists \/ file.data = <<>>
        content == IF file.exists THEN readlines(file.data) ELSE <<>>
    IN  IF \E i \in SymMarkedLines(content) : ~HasQuote(content[i])
        THEN Raise("IndexError", file)
        ELSE Ok(File(file.data
                \o (IF file_is_empty THEN writelines(HeaderLines("sym")) ELSE <<>>)
                \o writelines(NewEntries("sym", HelperDir(lib_dir), names,
                                         SymExistingParts(content)))
                \o (IF file_is_empty THEN CloseLine ELSE <<>>)))

SeqsUpTo(S, n) == UNION {[1..k -> S] : k \in 0..n}
Injective(s) == \A i, j \in 1..Len(s) : s[i] = s[j] => i = j

(***************************************************************************)
(* Files and directories.  A path is a sequence of directory names; a file *)
(* name is a sequence of tokens in which every '.' is a token of its own.  *)
(***************************************************************************)
IsPathPrefix(p, d) == Len(p) <= Len(d) /\ SubSeq(d, 1, Len(p)) = p
Ancestors(d) == {SubSeq(d, 1, k) : k \in 1..Len(d)}

\* filename.endswith('.' + ext)
endswith(filename, ext) ==
    /\ Len(filename) >= 2
    /\ filename[Len(filename) - 1] = "."
    /\ filename[Len(filename)] = ext

\* os.path.join(lib_dir, part_number) as a directory: separators dropped
LibPath(lib_dir) == SelectSeq(lib_dir, LAMBDA t : t \notin {"/", "\\"})
DestDir(lib_dir, part_number) == Append(LibPath(lib_dir), part_number)

FsUnused ==
    /\ files = {}
    /\ dirs = {}
    /\ before = {}
    /\ lastOp = [op |-> "none", n |-> 0]

MainUnused ==
    /\ idx = 0
    /\ processed_part_numbers = <<>>
    /\ fp_lib_table = NoFile
    /\ sym_lib_table = NoFile
    /\ outcomes = <<>>

(***************************************************************************)
(* process_generated_files (jlcimporter.py and helper.py, the same text)   *)
(***************************************************************************)
\* lines 119-127: the canonical name by suffix; <<>> for 'continue'
new_filename(filename) ==
    IF endswith(filename, "step") THEN <<"model", ".", "step">>
    ELSE IF endswith(filename, "kicad_mod") THEN <<"footprint", ".", "kicad_mod">>
    ELSE IF endswith(filename, "kicad_sym") THEN <<"symbol", ".", "kicad_sym">>
    ELSE <<>>

\* os.walk(component_dir): every file at any depth below component_dir
Walked(fs, component_dir) == {f \in fs : IsPathPrefix(component_dir, f.dir)}
Recognized(fs, component_dir) ==
    {f \in Walked(fs, component_dir) : new_filename(f.name) # <<>>}

\* shutil.copy in place of shutil.move: the staged files stay
process_generated_files_copy(fs, component_dir, lib_dir, part_number) ==
    LET dest_dir == DestDir(lib_dir, part_number)
        moved == Recognized(fs, component_dir)
        targets == {new_filename(f.name) : f \in moved}
        lastWalked == {w \in [targets -> moved] :
                          \A t \in targets : new_filename(w[t].name) = t}
    IN  {(fs \ {g \in fs : g.dir = dest_dir /\ g.name \in targets})
            \cup {[dir |-> dest_dir, name |-> t, text |-> w[t].text] : t \in targets} :
         w \in lastWalked}

\* lines 129-131: every recognized file is moved to dest_dir under its
\* canonical name, replacing a file of that name; of several files with
\* one canonical name the one walked last stays, and os.walk leaves the
\* order of the names to the file system: one result per order
process_generated_files(fs, component_dir, lib_dir, part_number) ==
    LET dest_dir == DestDir(lib_dir, part_number)
        moved == Recognized(fs, component_dir)
        targets == {new_filename(f.name) : f \in moved}
        lastWalked == {w \in [targets -> moved] :
                          \A t \in targets : new_filename(w[t].name) = t}
    IN  {(fs \ (moved \cup {g \in fs : g.dir = dest_dir /\ g.name \in targets}))
            \cup {[dir |-> dest_dir, name |-> t, text |-> w[t].text] : t \in targets} :
         w \in lastWalked}

\* line 130: os.makedirs(dest_dir, exist_ok=True), once a file is recognized
DirsAfterPlacing(fs, ds, component_dir, lib_dir, part_number) ==
    IF Recognized(fs, component_dir) = {} THEN ds
    ELSE ds \cup Ancestors(DestDir(lib_dir, part_number))

(***************************************************************************)
(* jlcimporter.py: update_model_property_in_footprint                      *)
(***************************************************************************)
\* line 92: lib_dir.strip("/").replace("\\", "/")
NormalizeLibDir(lib_dir) ==
    LET keep == {i \in 1..Len(lib_dir) : lib_dir[i] # "/"}
        stripped == IF keep = {} THEN <<>> ELSE SubSeq(lib_dir, Min(keep), Max(keep))
    IN  [i \in 1..Len(stripped) |-> IF stripped[i] = "\\" THEN "/" ELSE stripped[i]]

\* line 93
NewModelPath(lib_dir, part_number) ==
    <<KIPRJMOD, "/">> \o NormalizeLibDir(lib_dir) \o <<"/", part_number, "/", "model.step">>

\* lines 102-106: the line is rebuilt from the new path and the old line
\* from its first ')' on (or from its end), and a newline is added
RebuildModelLine(line, new_model_path) ==
    LET rps == {i \in 1..Len(line) : line[i] = RP}
        end_of_path == IF rps = {} THEN Len(line) + 1 ELSE Min(rps)
    IN  <<"(model", " ", Q>> \o new_model_path \o <<Q>>
        \o SubSeq(line, end_of_path, Len(line)) \o <<NL>>

\* lines 96-108: the file rewritten line by line
RewriteModelLines(text, new_model_path) ==
    LET lines == readlines(text)
    IN  writelines([i \in 1..Len(lines) |->
            IF startswith(strip(lines[i]), "(model")
            THEN RebuildModelLine(lines[i], new_model_path)
            ELSE lines[i]])

\* lines 85-86: the .kicad_mod files of <lib_dir>/<part_number>
FootprintFilesOf(fs, lib_dir, part_number) ==
    {f \in fs : f.dir = DestDir(lib_dir, part_number) /\ endswith(f.name, "kicad_mod")}

WithText(fs, f, text) == (fs \ {f}) \cup {[f EXCEPT !.text = text]}

update_model_property_in_footprint(fs, f, lib_dir, part_number) ==
    WithText(fs, f, RewriteModelLines(f.text, NewModelPath(lib_dir, part_number)))

(***************************************************************************)
(* update_footprint_property (jlcimporter.py and helper.py, the same text) *)
(***************************************************************************)
FootprintProperty == <<"(property ", Q, "Footprint", Q, " ", Q>>

\* r'\(property "Footprint" ".*?"\)' matched at position i: the position
\* of the ')' that ends the shortest match, 0 when there is none ('.' does
\* not match a newline)
MatchEnd(data, i) ==
    LET n == Len(FootprintProperty)
        ends == {j \in (i + n)..(Len(data) - 1) :
                    /\ data[j] = Q /\ data[j + 1] = RP
                    /\ \A k \in (i + n)..(j - 1) : data[k] # NL}
    IN  IF i + n - 1 <= Len(data) /\ SubSeq(data, i, i + n - 1) = FootprintProperty
           /\ ends # {}
        THEN Min(ends) + 1 ELSE 0

\* re.sub: every match, left to right, replaced
RECURSIVE ReSubFrom(_, _, _)
ReSubFrom(data, i, repl) ==
    IF i > Len(data) THEN <<>>
    ELSE IF MatchEnd(data, i) # 0
         THEN repl \o ReSubFrom(data, MatchEnd(data, i) + 1, repl)
         ELSE <<data[i]>> \o ReSubFrom(data, i + 1, repl)

\* line 78: '(property "Footprint" "{lib_dir}/{part_number}/{part_number}_footprint.kicad_mod")'
FootprintReplacement(lib_dir, part_number) ==
    FootprintProperty \o lib_dir
        \o <<"/", part_number, "/", part_number, "_footprint.kicad_mod", Q, RP>>

\* line 72: the .kicad_sym files directly in component_dir
SymbolFilesIn(fs, component_dir) ==
    {f \in fs : f.dir = component_dir /\ endswith(f.name, "kicad_sym")}

update_footprint_property(fs, f, lib_dir, part_number) ==
    WithText(fs, f, ReSubFrom(f.text, 1, FootprintReplacement(lib_dir, part_number)))

(***************************************************************************)
(* validate_part_numbers (jlcimporter.py and helper.py, the same text).    *)
(* A string is a sequence of one-character tokens.                         *)
(***************************************************************************)
Digits == {"0", "7"}
PatternMaxDigits == 8

\* the pattern without its '$': anything may follow the digits
rematch_unanchored(part) ==
    \E k \in 1..PatternMaxDigits :
        /\ Len(part) >= k + 1
        /\ part[1] = "C"
        /\ \A i \in 2..(k + 1) : part[i] \in Digits

\* re.match(r'^C\d{1,8}$', part): 'C', one to eight digits, then the end of
\* the string or a newline that ends the string
rematch(part) ==
    \E k \in 1..PatternMaxDigits :
        /\ Len(part) >= k + 1
        /\ part[1] = "C"
        /\ \A i \in 2..(k + 1) : part[i] \in Digits
        /\ \/ Len(part) = k + 1
           \/ Len(part) = k + 2 /\ part[k + 2] = NL

\* lines 43-44: a single string is wrapped into a list
AsList(arg) == IF arg.is_str THEN <<arg.value>> ELSE arg.value

\* line 46: [part for part in trimmed_part_numbers if re.match(pattern, part)]
RECURSIVE Matching(_)
Matching(parts) ==
    IF parts = <<>> THEN <<>>
    ELSE (IF rematch(Head(parts)) THEN <<Head(parts)>> ELSE <<>>) \o Matching(Tail(parts))

validate_part_numbers(arg) ==
    LET trimmed_part_numbers == [i \in 1..Len(AsList(arg)) |-> strip(AsList(arg)[i])]
    IN  Matching(trimmed_part_numbers)

\* identifiers and near misses given on the command line
Identifier(k) == <<"C">> \o [i \in 1..k |-> IF i % 2 = 1 THEN "7" ELSE "0"]
RawStrings ==
    {Identifier(k) : k \in 0..MaxDigits}
    \cup {<<" ">> \o b \o <<NL>> :
             b \in {Identifier(1), Identifier(PatternMaxDigits),
                    Identifier(PatternMaxDigits + 1), <<"c", "7">>}}
    \cup {<<>>, <<" ">>, <<"7">>, <<"c", "7">>, <<"C", "7", "x">>, <<"x", "C", "7">>,
          <<"C", " ", "7">>, <<"C", "C", "7">>, <<"C", "7", NL, "7">>,
          <<"C", "7", NL>>, <<" ", "C", "7">>}

ValidateUnused ==
    /\ part_numbers = [is_str |-> FALSE, value |-> <<>>]
    /\ valid_part_numbers = <<>>

MergeUnused ==
    /\ table = NoFile
    /\ prevTable = NoFile
    /\ lastCall = [op |-> "none", names |-> <<>>, err |-> ""]
    /\ calls = 0

InitValidate ==
    /\ cfg = [spec |-> "validate"]
    /\ pc = "validate"
    /\ \/ \E v \in SeqsUpTo(RawStrings, MaxIds) :
             part_numbers = [is_str |-> FALSE, value |-> v]
       \/ \E v \in RawStrings : part_numbers = [is_str |-> TRUE, value |-> v]
    /\ valid_part_numbers = <<>>
    /\ MergeUnused
    /\ FsUnused
    /\ MainUnused

ValidatePartNumbers ==
    /\ pc = "validate"
    /\ valid_part_numbers' = validate_part_numbers(part_numbers)
    /\ pc' = "validated"
    /\ UNCHANGED <<cfg, part_numbers, mergeVars, fsVars, mainVars>>

NextValidate == ValidatePartNumbers

SpecValidate == InitValidate /\ [][NextValidate]_vars

(***************************************************************************)
(* The merge operations as a state machine: a table file, and calls of     *)
(* the merge functions with arbitrary lists of names.                      *)
(***************************************************************************)

\* a table as a previous run or KiCad left it: header, entries, closing
\* line, possibly cut short, followed by blank lines, or without the final
\* newline
TableText(kind, entries, hasClose, blanks, finalNL) ==
    LET text == writelines(
                   HeaderLines(kind)
                   \o [i \in 1..Len(entries) |-> EntryLine(kind, entries[i], <<"lib">>)]
                   \o (IF hasClose THEN <<CloseLine>> ELSE <<>>)
                   \o [i \in 1..blanks |-> <<NL>>])
    IN  IF finalNL THEN text ELSE Front(text)

InitTables(kind) ==
    {NoFile, File(<<>>)}
    \cup {File(TableText(kind, e, c, b, n)) :
            e \in {s \in SeqsUpTo(Names, MaxEntries) : Injective(s)},
            c \in BOOLEAN, b \in 0..MaxBlank, n \in BOOLEAN}

NoCall == [op |-> "none", names |-> <<>>, err |-> ""]

InitMerge ==
    /\ \E k \in Kinds, d \in LibDirs :
          \E t \in InitTables(k) :
              /\ cfg = [kind |-> k, lib_dir |-> d, table0 |-> t]
              /\ table = t
    /\ prevTable = table
    /\ lastCall = NoCall
    /\ calls = 0
    /\ pc = "merge"
    /\ ValidateUnused
    /\ FsUnused
    /\ MainUnused

Called(op, names, res) ==
    /\ table' = res.file
    /\ prevTable' = table
    /\ lastCall' = [op |-> op, names |-> names, err |-> res.err]
    /\ calls' = calls + 1
    /\ UNCHANGED <<cfg, pc, validateVars, fsVars, mainVars>>

UpdateKicadLibTable ==
    /\ calls < MaxCalls
    /\ \E names \in SeqsUpTo(Names, MaxNames) :
          Called("update_kicad_lib_table", names,
                 update_kicad_lib_table(table, cfg.lib_dir, names, cfg.kind))

UpdateFpLibTable ==
    /\ calls < MaxCalls
    /\ cfg.kind = "fp"
    /\ \E names \in SeqsUpTo(Names, MaxNames) :
          Called("update_fp_lib_table", names,
                 update_fp_lib_table(table, cfg.lib_dir, names))

UpdateSymLibTable ==
    /\ calls < MaxCalls
    /\ cfg.kind = "sym"
    /\ \E names \in SeqsUpTo(Names, MaxNames) :
          Called("update_sym_lib_table", names,
                 update_sym_lib_table(table, cfg.lib_dir, names))

NextMerge == UpdateKicadLibTable \/ UpdateFpLibTable \/ UpdateSymLibTable

SpecMerge == InitMerge /\ [][NextMerge]_vars

(***************************************************************************)
(* The placer as a state machine: a staging tree as the converter left it, *)
(* and one call of process_generated_files.                                *)
(***************************************************************************)
PartName == "PartA"
StagingDir == <<"temp", "C7">>
Nested(d) == StagingDir \o [i \in 1..d |-> "sub"]
RecognizedExts == {"kicad_sym", "kicad_mod", "step"}

Generated(ext, depth) ==
    [dir |-> Nested(depth), name |-> <<"R0603", ".", ext>>, text |-> <<"generated", ext>>]

\* files the converter leaves beside the library files
OtherFiles ==
    {[dir |-> StagingDir, name |-> <<"R0603", ".", "wrl">>, text |-> <<"vrml">>],
     [dir |-> Nested(1), name |-> <<"step">>, text |-> <<"no suffix">>],
     [dir |-> StagingDir, name |-> <<"R0603", ".", "step", ".", "bak">>, text |-> <<"backup">>],
     [dir |-> Nested(1), name |-> <<"R0603", ".", "STEP">>, text |-> <<"upper case">>]}

\* what an earlier run left in the destination directory
EarlierRuns(lib_dir) ==
    {{},
     {[dir |-> DestDir(lib_dir, PartName), name |-> <<"model", ".", "step">>,
       text |-> <<"earlier run">>],
      [dir |-> DestDir(lib_dir, PartName), name |-> <<"notes", ".", "txt">>,
       text |-> <<"notes">>]}}

StagingTrees ==
    {{Generated(e, depth[e]) : e \in {x \in RecognizedExts : depth[x] >= 0}} \cup other :
        depth \in [RecognizedExts -> -1..MaxDepth], other \in SUBSET OtherFiles}

DirsOf(fs) == UNION {Ancestors(f.dir) : f \in fs}

InitPlacer ==
    /\ \E d \in LibDirs :
          /\ cfg = [lib_dir |-> d, part_number |-> PartName, component_dir |-> StagingDir]
          /\ \E tree \in StagingTrees, old \in EarlierRuns(d) : files = tree \cup old
    /\ dirs = DirsOf(files) \cup Ancestors(StagingDir)
    /\ before = files
    /\ lastOp = [op |-> "none", n |-> 0]
    /\ pc = "staged"
    /\ MergeUnused
    /\ ValidateUnused
    /\ MainUnused

ProcessGeneratedFiles ==
    /\ pc = "staged"
    /\ files' \in process_generated_files(files, cfg.component_dir, cfg.lib_dir,
                                          cfg.part_number)
    /\ dirs' = DirsAfterPlacing(files, dirs, cfg.component_dir, cfg.lib_dir,
                                cfg.part_number)
    /\ before' = files
    /\ lastOp' = [op |-> "process_generated_files", n |-> 1]
    /\ pc' = "placed"
    /\ UNCHANGED <<cfg, mergeVars, validateVars, mainVars>>

NextPlacer == ProcessGeneratedFiles

SpecPlacer == InitPlacer /\ [][NextPlacer]_vars

(***************************************************************************)
(* The in-file rewrites as a state machine: a footprint file and a symbol  *)
(* file in one directory, and calls of the two rewrites.                   *)
(***************************************************************************)
ModelDecls ==
    {<<>>,
     << <<"  ", "(model", " ", Q, "old.step", Q, NL>>,
        <<"  ", "  ", "(offset (xyz 0 0 0))", NL>>,
        <<"  ", RP, NL>> >>,
     << <<"  ", "(model", " ", Q, "old.step", Q, RP, NL>> >>,
     << <<"(model", " ", Q, "old.step", Q, RP, NL>> >>}

FootprintTexts ==
    {writelines(<< <<"(footprint ", Q, "R0603", Q, NL>>, <<"  ", "(pad 1 smd rect)", NL>> >>
                \o m \o <<close>>) :
        m \in ModelDecls, close \in {<<RP, NL>>, <<RP>>}}

FootprintDecls ==
    {<<>>,
     << <<"  ", "(property ", Q, "Footprint", Q, " ", Q, "old:fp", Q, RP, NL>> >>,
     << <<"  ", "(property ", Q, "Footprint", Q, " ", Q, Q, RP, NL>> >>,
     << <<"  ", "(property ", Q, "Footprint", Q, " ", Q, "old:fp", Q, " ",
          "(id 2) (at 0 0 0)", NL>>,
        <<"  ", "  ", "(effects (font (size 1.27 1.27)) hide)", NL>>,
        <<"  ", RP, NL>> >>,
     << <<"  ", "(property ", Q, "Footprint", Q, " ", Q, "old:fp", Q, RP,
          "(property ", Q, "Footprint", Q, " ", Q, "other:fp", Q, RP, NL>> >>}

SymbolTexts ==
    {writelines(<< <<"(kicad_symbol_lib", NL>>,
                   <<"  ", "(property ", Q, "Value", Q, " ", Q, "R0603", Q, RP, NL>> >>
                \o d \o << <<RP, NL>> >>) :
        d \in FootprintDecls}

InitRewrite ==
    /\ \E d \in LibDirs, ft \in FootprintTexts, st \in SymbolTexts :
          /\ cfg = [lib_dir |-> d, part_number |-> PartName,
                    component_dir |-> DestDir(d, PartName)]
          /\ files = {[dir |-> DestDir(d, PartName),
                       name |-> <<"footprint", ".", "kicad_mod">>, text |-> ft],
                      [dir |-> DestDir(d, PartName),
                       name |-> <<"symbol", ".", "kicad_sym">>, text |-> st]}
    /\ dirs = DirsOf(files)
    /\ before = files
    /\ lastOp = [op |-> "none", n |-> 0]
    /\ pc = "rewrite"
    /\ MergeUnused
    /\ ValidateUnused
    /\ MainUnused

Rewritten(op, fs) ==
    /\ files' = fs
    /\ before' = files
    /\ lastOp' = [op |-> op, n |-> lastOp.n + 1]
    /\ UNCHANGED <<cfg, pc, dirs, mergeVars, validateVars, mainVars>>

UpdateModelPropertyInFootprint ==
    /\ lastOp.n < MaxRewrites
    /\ \E f \in FootprintFilesOf(files, cfg.lib_dir, cfg.part_number) :
          Rewritten("update_model_property_in_footprint",
                    update_model_property_in_footprint(files, f, cfg.lib_dir,
                                                       cfg.part_number))

UpdateFootprintProperty ==
    /\ lastOp.n < MaxRewrites
    /\ \E f \in SymbolFilesIn(files, cfg.component_dir) :
          Rewritten("update_footprint_property",
                    update_footprint_property(files, f, cfg.lib_dir, cfg.part_number))

NextRewrite == UpdateModelPropertyInFootprint \/ UpdateFootprintProperty

SpecRewrite == InitRewrite /\ [][NextRewrite]_vars

(***************************************************************************)
(* main (jlcimporter.py, and tester.py over helper.py): the batch.         *)
(***************************************************************************)
TempDir == <<"temp">>

\* a string as one token: the directory name made of an identifier
RECURSIVE Join(_)
Join(str) == IF str = <<>> THEN "" ELSE Head(str) \o Join(Tail(str))

\* os.path.join(args.temp_dir, part_number)
ComponentDir(part_number) == Append(TempDir, Join(part_number))

\* filename.split('.')[0]
BaseName(filename) ==
    IF filename # <<>> /\ Head(filename) # "." THEN Head(filename) ELSE ""

\* extract_mfr_part_number: the names the loop can end on; listdir leaves
\* the order to the file system, the last .kicad_sym name seen is returned
MfrPartNumbers(fs, symbol_dir) == {BaseName(f.name) : f \in SymbolFilesIn(fs, symbol_dir)}

\* what the converter writes for a part it knows
ConverterOutput(component_dir, name) ==
    {[dir |-> Append(component_dir, "symbol"), name |-> <<name, ".", "kicad_sym">>,
      text |-> writelines(<< <<"(kicad_symbol_lib", NL>>,
                  <<"  ", "(property ", Q, "Footprint", Q, " ", Q, "footprint:", name, Q, RP, NL>>,
                  <<RP, NL>> >>)],
     [dir |-> Append(component_dir, "footprint"), name |-> <<name, ".", "kicad_mod">>,
      text |-> writelines(<< <<"(footprint ", Q, name, Q, NL>>,
                  <<"  ", "(model", " ", Q, "packages3d/", name, ".step", Q, NL>>,
                  <<"  ", RP, NL>>, <<RP, NL>> >>)],
     [dir |-> component_dir \o <<"footprint", "packages3d">>, name |-> <<name, ".", "step">>,
      text |-> <<"ISO-10303-21">>],
     [dir |-> component_dir \o <<"footprint", "packages3d">>, name |-> <<name, ".", "wrl">>,
      text |-> <<"VRML">>]}

MainStrings == {<<"C", "7">>, <<" ", "C", "7", "0">>, <<"b", "a", "d">>}
MainTables(kind) ==
    {NoFile, File(TableText(kind, <<"PartA">>, TRUE, 0, TRUE))}

InitMain ==
    /\ \E v \in {"jlcimporter", "tester"}, d \in LibDirs,
          fp \in MainTables("fp"), sym \in MainTables("sym") :
          /\ cfg = [variant |-> v, lib_dir |-> d, fp_lib_table0 |-> fp,
                    sym_lib_table0 |-> sym]
          /\ fp_lib_table = fp
          /\ sym_lib_table = sym
    /\ pc = "start"
    /\ \E ids \in SeqsUpTo(MainStrings, MaxIds) :
          part_numbers = [is_str |-> FALSE, value |-> ids]
    /\ valid_part_numbers = <<>>
    /\ idx = 0
    /\ processed_part_numbers = <<>>
    /\ outcomes = <<>>
    /\ FsUnused
    /\ MergeUnused

\* lines 188-192: validation, then lib_dir and temp_dir are created
MainStart ==
    /\ pc = "start"
    /\ valid_part_numbers' = validate_part_numbers(part_numbers)
    /\ dirs' = dirs \cup Ancestors(LibPath(cfg.lib_dir)) \cup Ancestors(TempDir)
    /\ idx' = 1
    /\ pc' = "loop"
    /\ UNCHANGED <<cfg, part_numbers, mergeVars, files, before, lastOp,
                   processed_part_numbers, fp_lib_table, sym_lib_table, outcomes>>

InLoop == pc = "loop" /\ idx <= Len(valid_part_numbers)
ThisPart == valid_part_numbers[idx]
Outcome(result, name) == [id |-> ThisPart, result |-> result, name |-> name]

\* 'continue': the next identifier, nothing kept of this one
Skip(result, fs, ds) ==
    /\ files' = fs
    /\ dirs' = ds
    /\ outcomes' = Append(outcomes, Outcome(result, ""))
    /\ idx' = idx + 1
    /\ UNCHANGED <<cfg, pc, part_numbers, valid_part_numbers, mergeVars, before, lastOp,
                   processed_part_numbers, fp_lib_table, sym_lib_table>>

\* an exception leaves main: nothing after it runs
Crash(result, fs, ds) ==
    /\ files' = fs
    /\ dirs' = ds
    /\ outcomes' = Append(outcomes, Outcome(result, ""))
    /\ pc' = "crashed"
    /\ UNCHANGED <<cfg, idx, part_numbers, valid_part_numbers, mergeVars, before, lastOp,
                   processed_part_numbers, fp_lib_table, sym_lib_table>>

\* line 197: os.makedirs(component_dir, exist_ok=True)
WithComponentDir == dirs \cup {ComponentDir(ThisPart)}
SymbolDir == Append(ComponentDir(ThisPart), "symbol")

\* lines 198-199: the converter exits non-zero; run_jlc2kicadlib returns
\* False and the loop continues
ConverterFails ==
    /\ InLoop
    /\ Skip("converter failed", files, WithComponentDir)

\* lines 200-203: the converter exits 0 and leaves the directory 'symbol'
\* without a .kicad_sym file in it: extract_mfr_part_number returns None
NoSymbolFile ==
    /\ InLoop
    /\ \E left \in {{}, {f \in ConverterOutput(ComponentDir(ThisPart), "PartA") :
                               ~endswith(f.name, "kicad_sym")}} :
          Skip("no symbol file", files \cup left,
               WithComponentDir \cup DirsOf(left) \cup {SymbolDir})

\* line 200: the converter exits 0 and leaves no file at all; os.listdir of
\* <component_dir>/symbol raises FileNotFoundError unless an earlier
\* identifier of the batch left that directory
NothingGenerated ==
    /\ InLoop
    /\ IF SymbolDir \in dirs
       THEN Skip("no symbol file", files, WithComponentDir)
       ELSE Crash("nothing generated", files, WithComponentDir)

\* the rest of the loop body, jlcimporter.py lines 204-211
ImportedJlc(fs0, mfr_part) ==
    LET names == Append(processed_part_numbers, mfr_part)
        component_dir == ComponentDir(ThisPart)
    IN  \E fs1 \in process_generated_files(fs0, component_dir, cfg.lib_dir, mfr_part) :
        \E fs2 \in IF FootprintFilesOf(fs1, cfg.lib_dir, mfr_part) = {} THEN {fs1}
                    ELSE {update_model_property_in_footprint(fs1, f, cfg.lib_dir, mfr_part) :
                            f \in FootprintFilesOf(fs1, cfg.lib_dir, mfr_part)} :
            LET fp == update_kicad_lib_table(fp_lib_table, cfg.lib_dir, names, "fp")
                sym == update_kicad_lib_table(sym_lib_table, cfg.lib_dir, names, "sym")
            IN  /\ files' = fs2
                /\ dirs' = DirsAfterPlacing(fs0, WithComponentDir \cup DirsOf(fs0),
                                            component_dir, cfg.lib_dir, mfr_part)
                /\ processed_part_numbers' = names
                /\ outcomes' = Append(outcomes, Outcome("imported", mfr_part))
                /\ fp_lib_table' = fp.file
                /\ sym_lib_table' = IF fp.err = "" THEN sym.file ELSE sym_lib_table
                /\ IF fp.err = "" /\ sym.err = ""
                   THEN idx' = idx + 1 /\ pc' = pc
                   ELSE idx' = idx /\ pc' = "crashed"

\* the rest of the loop body, tester.py lines 27-32
ImportedTester(fs0, mfr_part) ==
    LET component_dir == ComponentDir(ThisPart)
    IN  \E fs1 \in IF SymbolFilesIn(fs0, component_dir) = {} THEN {fs0}
                    ELSE {update_footprint_property(fs0, f, cfg.lib_dir, mfr_part) :
                            f \in SymbolFilesIn(fs0, component_dir)} :
        \E fs2 \in process_generated_files(fs1, component_dir, cfg.lib_dir, mfr_part) :
            /\ files' = fs2
            /\ dirs' = DirsAfterPlacing(fs1, WithComponentDir \cup DirsOf(fs0),
                                        component_dir, cfg.lib_dir, mfr_part)
            /\ processed_part_numbers' = Append(processed_part_numbers, mfr_part)
            /\ outcomes' = Append(outcomes, Outcome("imported", mfr_part))
            /\ idx' = idx + 1
            /\ UNCHANGED <<pc, fp_lib_table, sym_lib_table>>

\* the converter exits 0 and leaves the files of a part
PartImported ==
    /\ InLoop
    /\ \E name \in Names :
          LET fs0 == files \cup ConverterOutput(ComponentDir(ThisPart), name)
          IN  \E mfr_part \in MfrPartNumbers(fs0, SymbolDir) :
                  IF cfg.variant = "jlcimporter"
                  THEN ImportedJlc(fs0, mfr_part)
                  ELSE ImportedTester(fs0, mfr_part)
    /\ UNCHANGED <<cfg, part_numbers, valid_part_numbers, mergeVars, before, lastOp>>

\* remove_temp_and_pycache: the staging tree is removed
WithoutTemp(fs) == {f \in fs : ~IsPathPrefix(TempDir, f.dir)}

\* after the loop: tester.py merges both tables once (lines 34-35); both
\* mains remove the staging directory
MainFinish ==
    /\ pc = "loop" /\ idx > Len(valid_part_numbers)
    /\ LET fp == IF cfg.variant = "tester"
                 THEN update_fp_lib_table(fp_lib_table, cfg.lib_dir, processed_part_numbers)
                 ELSE Ok(fp_lib_table)
           sym == IF cfg.variant = "tester"
                  THEN update_sym_lib_table(sym_lib_table, cfg.lib_dir,
                                            processed_part_numbers)
                  ELSE Ok(sym_lib_table)
       IN  /\ fp_lib_table' = fp.file
           /\ sym_lib_table' = IF fp.err = "" THEN sym.file ELSE sym_lib_table
           /\ IF fp.err = "" /\ sym.err = ""
              THEN /\ pc' = "done"
                   /\ files' = WithoutTemp(files)
                   /\ dirs' = {d \in dirs : ~IsPathPrefix(TempDir, d)}
              ELSE /\ pc' = "crashed"
                   /\ UNCHANGED <<files, dirs>>
    /\ UNCHANGED <<cfg, part_numbers, valid_part_numbers, mergeVars, before, lastOp,
                   idx, processed_part_numbers, outcomes>>

NextMain ==
    \/ MainStart
    \/ ConverterFails
    \/ NoSymbolFile
    \/ NothingGenerated
    \/ PartImported
    \/ MainFinish

SpecMain == InitMain /\ [][NextMain]_vars

(***************************************************************************)
(* Vocabulary of the statements about the merge operations.                *)
(***************************************************************************)
Lines(file) == readlines(file.data)
IsEntryLine(line) == Contains(line, LIBNAME)
IsClosingLine(line) == strip(line) = <<RP>>
IsBlankLine(line) == strip(line) = <<>>
SelectLines(lines, keep) == [k \in 1..Cardinality(keep) |->
    lines[CHOOSE i \in keep : Cardinality({j \in keep : j < i}) = k - 1]]
EntryLinesOf(file) ==
    SelectLines(Lines(file), {i \in 1..Len(Lines(file)) : IsEntryLine(Lines(file)[i])})
IsPrefix(a, b) == Len(a) <= Len(b) /\ SubSeq(b, 1, Len(a)) = a

\* the k-th quoted string of a line
QuotedField(line, k) ==
    LET qs == {i \in 1..Len(line) : line[i] = Q}
        nth(n) == CHOOSE i \in qs : Cardinality({j \in qs : j < i}) = n - 1
    IN  SubSeq(line, nth(2 * k - 1) + 1, nth(2 * k) - 1)

\* open tag, version line, entries, one closing line, blank lines; every
\* line ended by a newline
WellFormedTable(file) ==
    /\ file.exists
    /\ file.data # <<>> /\ Last(file.data) = NL
    /\ LET ls == Lines(file)
       IN  /\ Len(ls) >= 3
           /\ \E k \in Kinds : SubSeq(ls, 1, 2) = HeaderLines(k)
           /\ \E c \in 3..Len(ls) :
                 /\ IsClosingLine(ls[c])
                 /\ \A i \in 3..(c - 1) : IsEntryLine(ls[i])
                 /\ \A i \in (c + 1)..Len(ls) : IsBlankLine(ls[i])

UniqueEntryNames(file) ==
    LET ls == Lines(file)
    IN  \A i, j \in 1..Len(ls) :
            (IsEntryLine(ls[i]) /\ IsEntryLine(ls[j]) /\ i # j)
                => SplitQuote1(ls[i]) # SplitQuote1(ls[j])

\* the names of a list, each once, in the order of their first occurrence
RECURSIVE Distinct(_)
Distinct(names) ==
    IF names = <<>> THEN <<>>
    ELSE LET d == Distinct(Front(names))
         IN  IF \E i \in 1..Len(d) : d[i] = Last(names) THEN d ELSE Append(d, Last(names))

MergeCalled == lastCall.op # "none"

\* the last call made once more on the file it left
CallAgain ==
    CASE lastCall.op = "update_kicad_lib_table" ->
            update_kicad_lib_table(table, cfg.lib_dir, lastCall.names, cfg.kind)
      [] lastCall.op = "update_fp_lib_table" ->
            update_fp_lib_table(table, cfg.lib_dir, lastCall.names)
      [] lastCall.op = "update_sym_lib_table" ->
            update_sym_lib_table(table, cfg.lib_dir, lastCall.names)

\* C1: a second merge call with the same names leaves the table file
\* exactly as the first call left it, for every file content and every
\* list of names, for each of the three merge operations.
C1_MergeIdempotent ==
    MergeCalled => CallAgain.file = table

\* C2: after a successful merge call on a table that was absent or
\* well-formed (blank lines after the closing line included), the file holds
\* exactly one closing line ')' and it is the last line of the file.
C2_OneClosingLineLast ==
    (/\ MergeCalled /\ lastCall.err = "" /\ table.exists
     /\ (~cfg.table0.exists \/ WellFormedTable(cfg.table0)))
    => {i \in 1..Len(Lines(table)) : IsClosingLine(Lines(table)[i])}
          = {Len(Lines(table))}

\* C3: starting from a table whose entry names are unique, no name occurs in
\* more than one entry line after any sequence of merge calls, also when a
\* name is listed twice in one call.
C3_EntryNamesUnique ==
    UniqueEntryNames(cfg.table0) => UniqueEntryNames(table)

\* C4: the entry lines a table held before a merge call are a byte-identical
\* prefix of the entry lines it holds after the call.
C4_ExistingEntriesKept ==
    (MergeCalled /\ prevTable.exists)
    => IsPrefix(EntryLinesOf(prevTable), EntryLinesOf(table))

\* C5: a merge call on an absent or empty (zero bytes) table file, with any
\* list of names, the empty list included, raises nothing and leaves open
\* tag, version line, one entry line per distinct name, closing line.
C5_FreshTableWellFormed ==
    (MergeCalled /\ (~prevTable.exists \/ prevTable.data = <<>>))
    => /\ lastCall.err = ""
       /\ table.exists
       /\ LET ls == Lines(table)
              want == Distinct(lastCall.names)
          IN  /\ Len(ls) = Len(want) + 3
              /\ SubSeq(ls, 1, 2) = HeaderLines(cfg.kind)
              /\ ls[Len(ls)] = CloseLine
              /\ \A i \in 1..Len(want) :
                    IsEntryLine(ls[i + 2]) /\ SplitQuote1(ls[i + 2]) = <<want[i]>>

\* C9: every entry line a merge call adds carries the uri
\* ${KIPRJMOD}/<lib_dir>/<name>/<symbol.kicad_sym | footprint.kicad_mod>,
\* lib_dir being the library directory passed to the call.
C9_AddedEntryUri ==
    (MergeCalled /\ lastCall.err = "" /\ table.exists)
    => \A i \in 1..Len(Lines(table)) :
          LET line == Lines(table)[i]
          IN  (/\ IsEntryLine(line)
               /\ ~\E j \in 1..Len(Lines(prevTable)) : Lines(prevTable)[j] = line)
              => \E n \in Names :
                    /\ SplitQuote1(line) = <<n>>
                    /\ QuotedField(line, 3) =
                          <<KIPRJMOD, "/">> \o cfg.lib_dir
                             \o <<"/", n, "/", ArtifactName(cfg.kind)>>

(***************************************************************************)
(* Vocabulary of the statement about validate_part_numbers.                *)
(***************************************************************************)
RECURSIVE TrimLeft(_)
TrimLeft(str) == IF str # <<>> /\ IsWS(Head(str)) THEN TrimLeft(Tail(str)) ELSE str
RECURSIVE TrimRight(_)
TrimRight(str) == IF str # <<>> /\ IsWS(Last(str)) THEN TrimRight(Front(str)) ELSE str
Trimmed(str) == TrimRight(TrimLeft(str))

\* the language of ^C\d{1,8}$ over whitespace-free strings
IsIdentifier(str) ==
    /\ Len(str) \in 2..(PatternMaxDigits + 1)
    /\ str[1] = "C"
    /\ \A i \in 2..Len(str) : str[i] \in Digits

Given == IF part_numbers.is_str THEN <<part_numbers.value>> ELSE part_numbers.value
KeptPositions == {i \in 1..Len(Given) : IsIdentifier(Trimmed(Given[i]))}

\* C7: validate_part_numbers returns exactly the trimmed elements that are
\* identifiers (C followed by one to eight digits), in their original
\* order, every occurrence kept; a single string counts as a list of one.
C7_ValidateExact ==
    pc = "validated" =>
        valid_part_numbers =
            [k \in 1..Cardinality(KeptPositions) |->
                Trimmed(Given[CHOOSE i \in KeptPositions :
                                 Cardinality({j \in KeptPositions : j < i}) = k - 1])]

\* a list of two holding the same identifier twice, once with blanks
\* around it: both are returned, trimmed
C7_Witness_DuplicateKept ==
    /\ pc = "validated"
    /\ ~part_numbers.is_str
    /\ Len(part_numbers.value) = 2
    /\ part_numbers.value[1] # part_numbers.value[2]
    /\ Len(valid_part_numbers) = 2
    /\ valid_part_numbers[1] = valid_part_numbers[2]

(***************************************************************************)
(* Vocabulary of the statements about the placer and the rewrites.         *)
(***************************************************************************)
CanonicalName ==
    [e \in RecognizedExts |->
        CASE e = "kicad_sym" -> <<"symbol", ".", "kicad_sym">>
          [] e = "kicad_mod" -> <<"footprint", ".", "kicad_mod">>
          [] e = "step" -> <<"model", ".", "step">>]

HasExt(f, e) == Len(f.name) >= 2 /\ SubSeq(f.name, Len(f.name) - 1, Len(f.name)) = <<".", e>>
Staged(fs) == {f \in fs : IsPathPrefix(cfg.component_dir, f.dir)}
DestOf(fs) == {f \in fs : f.dir = DestDir(cfg.lib_dir, cfg.part_number)}
Sources(e) == {f \in Staged(before) : HasExt(f, e)}
Unrecognized(fs) == {f \in Staged(fs) : \A e \in RecognizedExts : ~HasExt(f, e)}

\* C8: after process_generated_files on a staging tree holding at most one
\* file per recognized extension, at any depth, beside other files: the
\* destination holds symbol.kicad_sym, footprint.kicad_mod, model.step for
\* exactly the sources that were staged, with their content, and nothing
\* else was put there; the recognized files are gone from staging; every
\* other staged file is where it was.
C8_PlacedExactly ==
    pc = "placed" =>
        /\ \A e \in RecognizedExts :
              Sources(e) # {} =>
                  /\ \E f \in Sources(e) :
                        [dir |-> DestDir(cfg.lib_dir, cfg.part_number),
                         name |-> CanonicalName[e], text |-> f.text] \in files
                  /\ Sources(e) \cap files = {}
        /\ \A g \in DestOf(files) :
              \/ \E e \in RecognizedExts :
                    g.name = CanonicalName[e] /\ \E f \in Sources(e) : f.text = g.text
              \/ g \in before
        /\ Unrecognized(files) = Unrecognized(before)
        /\ Staged(files) = Unrecognized(files)
        /\ files \ (Staged(files) \cup DestOf(files))
              = before \ (Staged(before) \cup DestOf(before))

\* all three files staged, one of them at the greatest depth, an
\* unrecognized file beside them, a model of an earlier run in the way
C8_Witness_AllPlaced ==
    /\ pc = "placed"
    /\ \A e \in RecognizedExts : Sources(e) # {}
    /\ \E f \in Sources("step") : Len(f.dir) = Len(cfg.component_dir) + MaxDepth
    /\ Unrecognized(files) # {}
    /\ \E g \in before : g.dir = DestDir(cfg.lib_dir, cfg.part_number)
                          /\ g.name = CanonicalName["step"]
    /\ Cardinality(DestOf(files)) = 4

IsModelLine(line) == startswith(strip(line), "(model")
IsFootprintLine(line) == Contains(line, "Footprint")

\* the rewrite just made, made once more, changes nothing
RewriteAgainSame ==
    CASE lastOp.op = "update_model_property_in_footprint" ->
            \A f \in FootprintFilesOf(files, cfg.lib_dir, cfg.part_number) :
                update_model_property_in_footprint(files, f, cfg.lib_dir,
                                                   cfg.part_number) = files
      [] lastOp.op = "update_footprint_property" ->
            \A f \in SymbolFilesIn(files, cfg.component_dir) :
                update_footprint_property(files, f, cfg.lib_dir, cfg.part_number) = files

\* no line added or removed, and every line that is not the rewritten
\* declaration is as it was
OtherLinesKept ==
    \A f \in before, g \in files :
        (f.dir = g.dir /\ f.name = g.name) =>
            LET was == readlines(f.text)
                is == readlines(g.text)
            IN  /\ Len(was) = Len(is)
                /\ \A i \in 1..Len(was) :
                      (~IsModelLine(was[i]) /\ ~IsFootprintLine(was[i])) => is[i] = was[i]

\* C10: both in-file rewrites are idempotent, whether the '(model' line
\* holds a ')' or not, and they leave every other line unchanged, adding
\* and removing none.
C10_RewritesIdempotent ==
    lastOp.op \in {"update_model_property_in_footprint", "update_footprint_property"}
        => RewriteAgainSame /\ OtherLinesKept

(***************************************************************************)
(* Vocabulary of the statement about the batch.                            *)
(***************************************************************************)
EntryNames(file) ==
    {SplitQuote1(Lines(file)[i]) :
        i \in {j \in 1..Len(Lines(file)) : IsEntryLine(Lines(file)[j])}}
Imported == {outcomes[i].name : i \in {j \in 1..Len(outcomes) : outcomes[j].result = "imported"}}

EveryPartHandled ==
    /\ Len(outcomes) = Len(valid_part_numbers)
    /\ \A i \in 1..Len(outcomes) : outcomes[i].id = valid_part_numbers[i]

OnlyImportedPartsKept ==
    /\ {f.dir : f \in files} = {DestDir(cfg.lib_dir, n) : n \in Imported}
    /\ \A n \in Imported, e \in RecognizedExts :
          \E f \in files : f.dir = DestDir(cfg.lib_dir, n) /\ f.name = CanonicalName[e]
    /\ EntryNames(fp_lib_table) = EntryNames(cfg.fp_lib_table0) \cup {<<n>> : n \in Imported}
    /\ EntryNames(sym_lib_table) = EntryNames(cfg.sym_lib_table0) \cup {<<n>> : n \in Imported}

\* C6: in a batch of several distinct valid identifiers, a converter that
\* exits non-zero, or leaves no symbol file (also by leaving no file at
\* all), costs only its own identifier: the run does not
\* abort, every identifier of the batch is handled in input order, the
\* imported parts and only they have their directory under lib_dir and
\* their entries in both tables, and the run reaches the staging cleanup.
C6_FailuresAreLocal ==
    (Len(valid_part_numbers) >= 2 /\ Injective(valid_part_numbers)) =>
        /\ pc # "crashed"
        /\ pc = "done" => EveryPartHandled /\ OnlyImportedPartsKept

(***************************************************************************)
(* Vocabulary of the statement about the footprint reference.              *)
(***************************************************************************)
\* the values of the (property "Footprint" "...") declarations of a text
FootprintValues(text) ==
    {SubSeq(text, i + Len(FootprintProperty), MatchEnd(text, i) - 2) :
        i \in {j \in 1..Len(text) : MatchEnd(text, j) # 0}}

\* a path that ends at the footprint file the placer stored for the part
PointsAtFootprint(value, name) ==
    /\ Len(value) >= 3
    /\ SubSeq(value, Len(value) - 2, Len(value)) = <<name, "/", ArtifactName("fp")>>

RelocatedSymbolFiles(name) ==
    {f \in files : f.dir = DestDir(cfg.lib_dir, name) /\ f.name = CanonicalName["kicad_sym"]}

\* C11: once the pipeline has processed a part whose generated symbol file
\* holds a (property "Footprint" "...") declaration, the relocated
\* <lib_dir>/<name>/symbol.kicad_sym holds that declaration with a value
\* that is a path to the footprint file stored for the part,
\* <name>/footprint.kicad_mod.
C11_FootprintReferenceRewritten ==
    \A n \in Imported :
        \A f \in RelocatedSymbolFiles(n) :
            /\ FootprintValues(f.text) # {}
            /\ \A v \in FootprintValues(f.text) : PointsAtFootprint(v, n)

====
